---- MODULE Spec2Model ----
(***************************************************************************)
(* A model of the darkmatter ledger store (src/types/types.go, package     *)
(* database), of block sealing (FullSignedBlock.CreateHash) and of the     *)
(* vendored Shamir secret sharing (src/shamir/shamir.go).                   *)
(*                                                                         *)
(* Go strings and []byte are sequences of bytes (0..255).  The badger      *)
(* database is a function from keys (byte sequences) to values (byte       *)
(* sequences).                                                             *)
(***************************************************************************)
EXTENDS Integers, Sequences, FiniteSets, TLC

VARIABLES
    db,        \* the badger key/value store behind Store.storHandler
    last,      \* the last call made on the store: operation, argument, error
    calls,     \* number of store calls made so far
    head,      \* the chain head kept by the sealing pipeline
    blk,       \* the block a CreateHash caller holds
    hashErr,   \* what the last CreateHash returned
    hashOp,    \* the last operation on blk
    splitCall,    \* the last call of Split: its inputs, shares and error
    combineCall   \* the last call of Combine: the shares used, secret and error

storeVars == <<db, last, calls>>
chainVars == <<head>>
hashVars == <<blk, hashErr, hashOp>>
shamirVars == <<splitCall, combineCall>>
vars == <<db, last, calls, head, blk, hashErr, hashOp, splitCall, combineCall>>

-----------------------------------------------------------------------------
(* Bounds *)

\* store calls in one behaviour
MaxCalls == 3

-----------------------------------------------------------------------------
(* Byte strings *)

Nil == "nil"
EmptyString == << >>

\* "dd"
BlockHashPrefix == <<100, 100>>
\* "1d0684170dcf58ed2499d233be72b5dde48d8124cb617f1309bae85da2fe85cf"
ServiceHash == <<49, 100, 48, 54, 56, 52, 49, 55, 48, 100, 99, 102, 53, 56, 101, 100, 50, 52, 57, 57, 100, 50, 51, 51, 98, 101, 55, 50, 98, 53, 100, 100, 101, 52, 56, 100, 56, 49, 50, 52, 99, 98, 54, 49, 55, 102, 49, 51, 48, 57, 98, 97, 101, 56, 53, 100, 97, 50, 102, 101, 56, 53, 99, 102>>

HashKeyPrefix == 1
TimestampKeyPrefix == 2
HeightKeyPrefix == 3
FixedKeyPrefix == 255

\* fmt's %d of a non-negative integer
RECURSIVE Digits(_)
Digits(n) == IF n < 10 THEN <<48 + n>> ELSE Digits(n \div 10) \o <<48 + (n % 10)>>

\* fmt's %02d of a non-negative integer
Pad2(n) == IF n < 10 THEN <<48>> \o Digits(n) ELSE Digits(n)

-----------------------------------------------------------------------------
(* encoding/json of a FullSignedBlock *)

\* JSON text of the struct tags, in field order
KeyHash == <<123, 34, 104, 97, 115, 104, 34, 58>>
KeyHeight == <<44, 34, 104, 101, 105, 103, 104, 116, 34, 58>>
KeyTimestamp == <<44, 34, 116, 105, 109, 101, 115, 116, 97, 109, 112, 34, 58>>
KeyData == <<44, 34, 100, 97, 116, 97, 34, 58>>
KeyPreviousHash == <<44, 34, 112, 114, 101, 118, 105, 111, 117, 115, 72, 97, 115, 104, 34, 58>>
KeyAddress == <<44, 34, 97, 100, 100, 114, 101, 115, 115, 34, 58>>
KeyPreviousAddress == <<44, 34, 112, 114, 101, 118, 105, 111, 117, 115, 65, 100, 100, 114, 101, 115, 115, 34, 58>>
KeyMemo == <<44, 34, 109, 101, 109, 111, 34, 58>>
KeyEvidence == <<44, 34, 101, 118, 105, 100, 101, 110, 99, 101, 34, 58>>
KeyName == <<123, 34, 110, 97, 109, 101, 34, 58>>
KeyHasError == <<44, 34, 104, 97, 115, 69, 114, 114, 111, 114, 34, 58>>
KeyTicker == <<44, 34, 116, 105, 99, 107, 101, 114, 34, 58>>
KeyResultHash == <<44, 34, 104, 97, 115, 104, 34, 58>>
JsonNull == <<110, 117, 108, 108>>
JsonTrue == <<116, 114, 117, 101>>
JsonFalse == <<102, 97, 108, 115, 101>>
CloseBrace == <<125>>
OpenBracket == <<91>>
CloseBracket == <<93>>
Comma == <<44>>
Quote == <<34>>

\* A Payload (interface{}) is [type, val]: a float64, an int, a float64 NaN,
\* or nil.  json.Marshal rejects NaN (UnsupportedValueError).
NilPayload == [type |-> "nil", val |-> 0]
Unsupported(p) == p.type = "NaN"

\* A slice is [isNil, items]: json writes null for a nil slice, [] for an empty one.
NilSlice == [isNil |-> TRUE, items |-> << >>]
Slice(items) == [isNil |-> FALSE, items |-> items]

ZeroBlock ==
    [Hash |-> EmptyString, Height |-> 0, Timestamp |-> 0, Payload |-> NilPayload,
     PreviousHash |-> EmptyString, Address |-> EmptyString,
     PreviousAddress |-> EmptyString, Memo |-> EmptyString, Evidence |-> NilSlice]

JsonString(s) == Quote \o s \o Quote

JsonPayload(p) == IF p.type = "nil" THEN JsonNull ELSE Digits(p.val)

\* Result.Data is nil in every Result of the model: json writes null for it
MarshalResult(r) ==
    KeyName \o JsonString(r.CrawlerName) \o KeyData \o JsonNull
    \o KeyHasError \o (IF r.HasError THEN JsonTrue ELSE JsonFalse)
    \o KeyTimestamp \o Digits(r.Timestamp)
    \o KeyTicker \o JsonString(r.Ticker)
    \o KeyResultHash \o JsonString(r.Hash) \o CloseBrace

RECURSIVE JsonItems(_)
JsonItems(items) ==
    IF Len(items) = 0 THEN << >>
    ELSE IF Len(items) = 1 THEN MarshalResult(items[1])
    ELSE MarshalResult(items[1]) \o Comma \o JsonItems(Tail(items))

JsonEvidence(e) ==
    IF e.isNil THEN JsonNull ELSE OpenBracket \o JsonItems(e.items) \o CloseBracket

\* json.Marshal(block): [bytes, err]; bytes is nil (empty) on error
Marshal(block) ==
    IF Unsupported(block.Payload) THEN [bytes |-> EmptyString, err |-> "UnsupportedValue"]
    ELSE [bytes |->
             KeyHash \o JsonString(block.Hash)
             \o KeyHeight \o Digits(block.Height)
             \o KeyTimestamp \o Digits(block.Timestamp)
             \o KeyData \o JsonPayload(block.Payload)
             \o KeyPreviousHash \o JsonString(block.PreviousHash)
             \o KeyAddress \o JsonString(block.Address)
             \o KeyPreviousAddress \o JsonString(block.PreviousAddress)
             \o KeyMemo \o JsonString(block.Memo)
             \o KeyEvidence \o JsonEvidence(block.Evidence) \o CloseBrace,
          err |-> Nil]

\* The decoder reads the text Marshal writes.  A position is an index into
\* the text; position 0 means the text did not parse.
Lit(s, pos, lit) ==
    IF pos > 0 /\ pos + Len(lit) - 1 <= Len(s) /\ SubSeq(s, pos, pos + Len(lit) - 1) = lit
    THEN pos + Len(lit) ELSE 0

QuoteAt(s, pos) ==
    LET quotes == {i \in pos..Len(s) : <<s[i]>> = Quote}
    IN IF quotes = {} THEN 0 ELSE CHOOSE i \in quotes : \A j \in quotes : i <= j

\* a JSON string at pos: [pos, val]
ParseString(s, pos) ==
    LET open == Lit(s, pos, Quote)
        close == IF open = 0 THEN 0 ELSE QuoteAt(s, open)
    IN IF close = 0 THEN [pos |-> 0, val |-> EmptyString]
       ELSE [pos |-> close + 1, val |-> SubSeq(s, open, close - 1)]

IsDigit(c) == c >= 48 /\ c <= 57

RECURSIVE DigitsEnd(_, _)
DigitsEnd(s, pos) ==
    IF pos <= Len(s) /\ IsDigit(s[pos]) THEN DigitsEnd(s, pos + 1) ELSE pos

RECURSIVE DigitsValue(_)
DigitsValue(d) ==
    IF Len(d) = 0 THEN 0 ELSE 10 * DigitsValue(SubSeq(d, 1, Len(d) - 1)) + (d[Len(d)] - 48)

\* a JSON number (non-negative integer text) at pos: [pos, val]
ParseNumber(s, pos) ==
    LET end == IF pos = 0 THEN 0 ELSE DigitsEnd(s, pos)
    IN IF pos = 0 \/ end = pos THEN [pos |-> 0, val |-> 0]
       ELSE [pos |-> end, val |-> DigitsValue(SubSeq(s, pos, end - 1))]

\* a value decoded into an interface{}: null gives nil, a number gives a float64
ParsePayload(s, pos) ==
    LET asNull == Lit(s, pos, JsonNull)
        num == ParseNumber(s, pos)
    IN IF asNull > 0 THEN [pos |-> asNull, val |-> NilPayload]
       ELSE [pos |-> num.pos, val |-> [type |-> "float64", val |-> num.val]]

ParseBool(s, pos) ==
    LET t == Lit(s, pos, JsonTrue)
    IN IF t > 0 THEN [pos |-> t, val |-> TRUE]
       ELSE [pos |-> Lit(s, pos, JsonFalse), val |-> FALSE]

ParseNull(s, pos) == [pos |-> Lit(s, pos, JsonNull), val |-> NilSlice]

\* the fields of the two structs in declaration order: JSON key text, the
\* Go field, the kind of its value
BlockFields ==
    <<[key |-> KeyHash, name |-> "Hash", kind |-> "string"],
      [key |-> KeyHeight, name |-> "Height", kind |-> "number"],
      [key |-> KeyTimestamp, name |-> "Timestamp", kind |-> "number"],
      [key |-> KeyData, name |-> "Payload", kind |-> "interface"],
      [key |-> KeyPreviousHash, name |-> "PreviousHash", kind |-> "string"],
      [key |-> KeyAddress, name |-> "Address", kind |-> "string"],
      [key |-> KeyPreviousAddress, name |-> "PreviousAddress", kind |-> "string"],
      [key |-> KeyMemo, name |-> "Memo", kind |-> "string"],
      [key |-> KeyEvidence, name |-> "Evidence", kind |-> "results"]>>

ResultFields ==
    <<[key |-> KeyName, name |-> "CrawlerName", kind |-> "string"],
      [key |-> KeyData, name |-> "Data", kind |-> "null"],
      [key |-> KeyHasError, name |-> "HasError", kind |-> "bool"],
      [key |-> KeyTimestamp, name |-> "Timestamp", kind |-> "number"],
      [key |-> KeyTicker, name |-> "Ticker", kind |-> "string"],
      [key |-> KeyResultHash, name |-> "Hash", kind |-> "string"]>>

ZeroResult ==
    [CrawlerName |-> EmptyString, Data |-> NilSlice, HasError |-> FALSE, Timestamp |-> 0,
     Ticker |-> EmptyString, Hash |-> EmptyString]

RECURSIVE ParseFields(_, _, _, _, _)
RECURSIVE ParseItems(_, _, _)

\* a JSON array of Results, or null, at pos: [pos, val]
ParseEvidence(s, pos) ==
    LET asNull == Lit(s, pos, JsonNull)
    IN IF asNull > 0 THEN [pos |-> asNull, val |-> NilSlice]
       ELSE ParseItems(s, Lit(s, pos, OpenBracket), << >>)

ParseValue(s, pos, kind) ==
    CASE kind = "string" -> ParseString(s, pos)
      [] kind = "number" -> ParseNumber(s, pos)
      [] kind = "interface" -> ParsePayload(s, pos)
      [] kind = "bool" -> ParseBool(s, pos)
      [] kind = "null" -> ParseNull(s, pos)
      [] kind = "results" -> ParseEvidence(s, pos)

\* the object's fields from field i on, then its "}": [pos, val]
ParseFields(s, pos, fields, i, acc) ==
    IF i > Len(fields) THEN [pos |-> Lit(s, pos, CloseBrace), val |-> acc]
    ELSE LET r == ParseValue(s, Lit(s, pos, fields[i].key), fields[i].kind)
         IN IF r.pos = 0 THEN [pos |-> 0, val |-> acc]
            ELSE ParseFields(s, r.pos, fields, i + 1, [acc EXCEPT ![fields[i].name] = r.val])

\* the elements of a JSON array after its "[": [pos, val], pos after the "]"
ParseItems(s, pos, acc) ==
    IF pos = 0 THEN [pos |-> 0, val |-> NilSlice]
    ELSE IF Len(acc) = 0 /\ Lit(s, pos, CloseBracket) > 0
    THEN [pos |-> Lit(s, pos, CloseBracket), val |-> Slice(acc)]
    ELSE LET r == ParseFields(s, pos, ResultFields, 1, ZeroResult)
         IN IF Lit(s, r.pos, Comma) > 0
            THEN ParseItems(s, Lit(s, r.pos, Comma), Append(acc, r.val))
            ELSE [pos |-> Lit(s, r.pos, CloseBracket), val |-> Slice(Append(acc, r.val))]

\* json.Unmarshal(bytes, &block) into a zero block: [block, err]
Unmarshal(bytes) ==
    LET r == ParseFields(bytes, 1, BlockFields, 1, ZeroBlock)
    IN IF r.pos = Len(bytes) + 1 THEN [block |-> r.val, err |-> Nil]
       ELSE [block |-> ZeroBlock, err |-> "SyntaxError"]

-----------------------------------------------------------------------------
(* Hashing: calculateHash and FullSignedBlock.CreateHash *)

\* A hex digest holds no character that json escapes.  The digest of the
\* model keeps that: the quote of a hashed text is written "%2" and a
\* percent sign "%%", which no two texts share.
RECURSIVE DigestChars(_, _, _)
DigestChars(text, from, to) ==
    IF from > to THEN << >>
    ELSE IF from = to
         THEN (IF text[from] = 34 THEN <<37, 50>>
               ELSE IF text[from] = 37 THEN <<37, 37>>
               ELSE <<text[from]>>)
         ELSE DigestChars(text, from, (from + to) \div 2)
              \o DigestChars(text, (from + to) \div 2 + 1, to)

\* fmt.Sprintf("%x", sha256.Sum256(text)).  SHA-256 is taken to be free of
\* collisions: the digest of a text is written "#" followed by the characters
\* of the text, so that two texts have the same digest only when they are
\* equal.
Sha256Hex(text) == <<35>> \o DigestChars(text, 1, Len(text))

\* calculateHash(obj) for a block: [hash, err]
calculateHash(block) ==
    LET m == Marshal(block)
    IN IF m.err # Nil THEN [hash |-> EmptyString, err |-> m.err]
       ELSE [hash |-> Sha256Hex(Sha256Hex(ServiceHash \o <<58>> \o m.bytes)), err |-> Nil]

\* time.Unix(int64(timestamp), 0).Second(), for a timestamp below 2^63 in a
\* time zone whose offset is a whole number of minutes
Second(timestamp) == timestamp % 60

\* CreateHash hashing the block with the Hash it holds (no "clean hash")
CreateHashKeepsHash(block) ==
    LET h == calculateHash(block)
    IN [block |-> [block EXCEPT !.Hash = BlockHashPrefix \o Pad2(Second(block.Timestamp))
                                         \o (IF h.err = Nil THEN h.hash ELSE EmptyString)],
        err |-> h.err]

\* block.CreateHash(): [block, err], block being the receiver afterwards
CreateHash(block) ==
    LET h == calculateHash([block EXCEPT !.Hash = EmptyString])
    IN [block |-> [block EXCEPT !.Hash = BlockHashPrefix \o Pad2(Second(block.Timestamp))
                                         \o (IF h.err = Nil THEN h.hash ELSE EmptyString)],
        err |-> h.err]

-----------------------------------------------------------------------------
(* The badger store *)

EmptyDB == << >>

Has(m, k) == k \in DOMAIN m

Put(m, k, v) == [x \in DOMAIN m \cup {k} |-> IF x = k THEN v ELSE m[x]]

\* binary.LittleEndian.PutUint64
RECURSIVE ByteAt(_, _)
ByteAt(key, i) == IF i = 1 THEN key % 256 ELSE ByteAt(key \div 256, i - 1)

LittleEndian(key) == [i \in 1..8 |-> ByteAt(key, i)]

\* A read-write transaction is [pending, sets, failAt]: the writes it buffers,
\* the number of Set calls made, and the Set call badger refuses (0: none).
NewTxn(failAt) == [pending |-> EmptyDB, sets |-> 0, failAt |-> failAt]

\* txn.Set(index, value): [txn, err]
TxnSet(txn, index, value) ==
    IF txn.failAt = txn.sets + 1
    THEN [txn |-> [txn EXCEPT !.sets = @ + 1], err |-> "SetError"]
    ELSE [txn |-> [txn EXCEPT !.sets = @ + 1, !.pending = Put(@, index, value)],
          err |-> Nil]

\* txn.Get(index) followed by item.ValueCopy: [val, err]
TxnGet(store, index) ==
    IF Has(store, index) THEN [val |-> store[index], err |-> Nil]
    ELSE [val |-> EmptyString, err |-> "KeyNotFound"]

\* index = append([]byte{prefix}, PutUint64(key)...)
UIntIndex(key, prefix) == <<prefix>> \o LittleEndian(key)

\* index = append([]byte{prefix}, []byte(key)...)
StringIndex(key, prefix) == <<prefix>> \o key

storeUIntIndex(txn, key, value, prefix) == TxnSet(txn, UIntIndex(key, prefix), value)

readUIntIndex(store, key, prefix) == TxnGet(store, UIntIndex(key, prefix))

storeStringIndex(txn, key, value, prefix) == TxnSet(txn, StringIndex(key, prefix), value)

readStringIndex(store, key, prefix) == TxnGet(store, StringIndex(key, prefix))

\* DB.Update(fn): fn returned [txn, err]; the transaction is discarded when fn
\* returns an error or the commit fails, and its writes are applied otherwise
Update(store, result, commitFails) ==
    IF result.err # Nil THEN [db |-> store, err |-> result.err]
    ELSE IF commitFails THEN [db |-> store, err |-> "CommitError"]
    ELSE [db |-> [x \in DOMAIN store \cup DOMAIN result.txn.pending |->
                     IF Has(result.txn.pending, x) THEN result.txn.pending[x] ELSE store[x]],
          err |-> Nil]

-----------------------------------------------------------------------------
(* Store: the KVStore implementation *)

\* StoreBlockTxn with the function returning nil after a refused index write
StoreBlockTxnDropsIndexError(txn, block, bytes) ==
    LET main == storeStringIndex(txn, block.Hash, bytes, HashKeyPrefix)
        byTimestamp == storeUIntIndex(main.txn, block.Timestamp, block.Hash, TimestampKeyPrefix)
        byHeight == storeUIntIndex(byTimestamp.txn, block.Height, block.Hash, HeightKeyPrefix)
    IN IF main.err = Nil THEN [txn |-> byHeight.txn, err |-> Nil] ELSE main

\* StoreBlockTxn with the height entry written under the timestamp prefix
StoreBlockTxnHeightAsTimestamp(txn, block, bytes) ==
    LET main == storeStringIndex(txn, block.Hash, bytes, HashKeyPrefix)
        byTimestamp == storeUIntIndex(main.txn, block.Timestamp, block.Hash, TimestampKeyPrefix)
        byHeight == storeUIntIndex(byTimestamp.txn, block.Height, block.Hash, TimestampKeyPrefix)
    IN IF main.err = Nil
       THEN IF byTimestamp.err # Nil THEN byTimestamp
            ELSE IF byHeight.err # Nil THEN byHeight
            ELSE byHeight
       ELSE main

\* the function StoreBlock hands to Update: [txn, err]
StoreBlockTxn(txn, block, bytes) ==
    LET main == storeStringIndex(txn, block.Hash, bytes, HashKeyPrefix)
        byTimestamp == storeUIntIndex(main.txn, block.Timestamp, block.Hash, TimestampKeyPrefix)
        byHeight == storeUIntIndex(byTimestamp.txn, block.Height, block.Hash, HeightKeyPrefix)
    IN IF main.err = Nil
       THEN IF byTimestamp.err # Nil THEN byTimestamp
            ELSE IF byHeight.err # Nil THEN byHeight
            ELSE byHeight
       ELSE main

\* Store.StoreBlock(block): [db, err].  The error of json.Marshal is
\* overwritten by the error of Update.
StoreBlock(store, block, failAt, commitFails) ==
    LET bytes == Marshal(block).bytes
    IN Update(store, StoreBlockTxn(NewTxn(failAt), block, bytes), commitFails)

\* ReadBlock without the check of the read's error
ReadBlockUnchecked(store, hash) ==
    Unmarshal(readStringIndex(store, hash, HashKeyPrefix).val)

\* the body of the three lookups once the primary key is known: [block, err]
ReadBlock(store, hash) ==
    LET bytes == readStringIndex(store, hash, HashKeyPrefix)
    IN IF bytes.err # Nil THEN [block |-> ZeroBlock, err |-> bytes.err]
       ELSE Unmarshal(bytes.val)

\* Store.GetBlock(hash): [block, err]
GetBlock(store, hash) == ReadBlock(store, hash)

\* Store.FindBlockByTimestamp(timestamp): [block, err]
FindBlockByTimestamp(store, timestamp) ==
    LET hashBytes == readUIntIndex(store, timestamp, TimestampKeyPrefix)
    IN IF hashBytes.err # Nil THEN [block |-> ZeroBlock, err |-> hashBytes.err]
       ELSE ReadBlock(store, hashBytes.val)

\* Store.FindBlockByHeight(height): [block, err]
FindBlockByHeight(store, height) ==
    LET hashBytes == readUIntIndex(store, height, HeightKeyPrefix)
    IN IF hashBytes.err # Nil THEN [block |-> ZeroBlock, err |-> hashBytes.err]
       ELSE ReadBlock(store, hashBytes.val)

\* StoreValue writing under the prefix of the block hashes
StoreValueHashPrefix(store, key, value, failAt, commitFails) ==
    Update(store, storeStringIndex(NewTxn(failAt), key, value, HashKeyPrefix), commitFails)

\* Store.StoreValue(key, value): [db, err]
StoreValue(store, key, value, failAt, commitFails) ==
    Update(store, storeStringIndex(NewTxn(failAt), key, value, FixedKeyPrefix), commitFails)

\* Store.GetValue(key): [val, err]
GetValue(store, key) == readStringIndex(store, key, FixedKeyPrefix)

-----------------------------------------------------------------------------
(* Calls on the store *)

HeightInputs == {1, 2}
TimestampInputs == {1, 2}
PayloadInputs == {[type |-> "float64", val |-> 7], [type |-> "int", val |-> 7],
                  [type |-> "NaN", val |-> 0]}
\* one Result of the crawler "b" for the ticker "USD", hash "r1"
EvidenceInputs ==
    {Slice(<<[CrawlerName |-> <<98>>, HasError |-> FALSE, Timestamp |-> 1,
              Ticker |-> <<85, 83, 68>>, Hash |-> <<114, 49>>, Data |-> NilSlice]>>)}
\* "n1"
NodeAddress == <<110, 49>>

MakeBlock(h, n, t, p, e) ==
    [Hash |-> h, Height |-> n, Timestamp |-> t, Payload |-> p,
     PreviousHash |-> EmptyString, Address |-> NodeAddress,
     PreviousAddress |-> EmptyString, Memo |-> EmptyString, Evidence |-> e]

\* the hash text of the block of height n and timestamp t: "h" n t
InputHash(n, t) == <<104>> \o Digits(n) \o Digits(t)

\* a block with the float64 payload for every height and timestamp, and a
\* block of height 1 and timestamp 1 for each other payload; every block has
\* a hash of its own ("h" and the payload type's first letter for the latter)
BlockInputs ==
    {MakeBlock(InputHash(n, t), n, t, [type |-> "float64", val |-> 7], e) :
        n \in HeightInputs, t \in TimestampInputs, e \in EvidenceInputs}
    \cup {MakeBlock(IF p.type = "int" THEN <<104, 105>> ELSE <<104, 78>>, 1, 1, p, e) :
             p \in PayloadInputs \ {[type |-> "float64", val |-> 7]}, e \in EvidenceInputs}

HashInputs == {b.Hash : b \in BlockInputs}

\* raw keys: the text of a block hash, and the eight bytes of the number 1
KeyInputs == {InputHash(1, 1), <<1, 0, 0, 0, 0, 0, 0, 0>>}
\* "v"
ValueInputs == {<<118>>}

\* the step of an Update that fails: 0 none, 1..3 that Set call, 4 the commit
FailInputs == 0..4
CommitStep == 4

NoCall == [op |-> "none", err |-> Nil, block |-> ZeroBlock, key |-> EmptyString,
           value |-> EmptyString, fail |-> 0]

StoreBlockCall ==
    /\ calls < MaxCalls
    /\ \E b \in BlockInputs, failAt \in FailInputs :
          LET r == StoreBlock(db, b, failAt, failAt = CommitStep)
          IN /\ db' = r.db
             /\ last' = [NoCall EXCEPT !.op = "StoreBlock", !.err = r.err, !.block = b,
                                       !.fail = failAt]
    /\ calls' = calls + 1
    /\ UNCHANGED <<chainVars, hashVars, shamirVars>>

StoreValueCall ==
    /\ calls < MaxCalls
    /\ \E k \in KeyInputs, v \in ValueInputs, failAt \in {0, 1, CommitStep} :
          LET r == StoreValue(db, k, v, failAt, failAt = CommitStep)
          IN /\ db' = r.db
             /\ last' = [NoCall EXCEPT !.op = "StoreValue", !.err = r.err, !.key = k,
                                       !.value = v, !.fail = failAt]
    /\ calls' = calls + 1
    /\ UNCHANGED <<chainVars, hashVars, shamirVars>>

GetBlockCall ==
    /\ calls < MaxCalls
    /\ \E h \in HashInputs :
          LET r == GetBlock(db, h)
          IN last' = [NoCall EXCEPT !.op = "GetBlock", !.err = r.err, !.block = r.block,
                                    !.key = h]
    /\ calls' = calls + 1
    /\ UNCHANGED <<db, chainVars, hashVars, shamirVars>>

FindBlockByTimestampCall ==
    /\ calls < MaxCalls
    /\ \E t \in TimestampInputs :
          LET r == FindBlockByTimestamp(db, t)
          IN last' = [NoCall EXCEPT !.op = "FindBlockByTimestamp", !.err = r.err,
                                    !.block = r.block, !.key = LittleEndian(t)]
    /\ calls' = calls + 1
    /\ UNCHANGED <<db, chainVars, hashVars, shamirVars>>

FindBlockByHeightCall ==
    /\ calls < MaxCalls
    /\ \E n \in HeightInputs :
          LET r == FindBlockByHeight(db, n)
          IN last' = [NoCall EXCEPT !.op = "FindBlockByHeight", !.err = r.err,
                                    !.block = r.block, !.key = LittleEndian(n)]
    /\ calls' = calls + 1
    /\ UNCHANGED <<db, chainVars, hashVars, shamirVars>>

GetValueCall ==
    /\ calls < MaxCalls
    /\ \E k \in KeyInputs :
          LET r == GetValue(db, k)
          IN last' = [NoCall EXCEPT !.op = "GetValue", !.err = r.err, !.key = k,
                                    !.value = r.val]
    /\ calls' = calls + 1
    /\ UNCHANGED <<db, chainVars, hashVars, shamirVars>>

\* the height of the first block of the chain
FirstHeight == 1

\* Split not called yet
NoSplit ==
    [op |-> "none", secret |-> << >>, parts |-> 0, threshold |-> 0,
     randFails |-> FALSE, shares |-> << >>, err |-> Nil]

\* Combine not called on the shares of the last Split
NoCombine ==
    [op |-> "none", used |-> {}, parts |-> << >>, secret |-> << >>, err |-> Nil]

\* no block sealed yet
NoHead == [height |-> FirstHeight - 1, hash |-> EmptyString]

Init ==
    /\ db = EmptyDB
    /\ last = NoCall
    /\ calls = 0
    /\ head = NoHead
    /\ blk = ZeroBlock
    /\ hashErr = Nil
    /\ hashOp = [op |-> "none", before |-> EmptyString]
    /\ splitCall = NoSplit
    /\ combineCall = NoCombine

Next ==
    \/ StoreBlockCall
    \/ StoreValueCall
    \/ GetBlockCall
    \/ FindBlockByTimestampCall
    \/ FindBlockByHeightCall
    \/ GetValueCall

Spec == Init /\ [][Next]_vars

-----------------------------------------------------------------------------
(* Calls on a block: the caller fills its fields, CreateHash seals it *)

SealTimestampInputs == {5, 59, 60, 61, 125}
\* "x"
StaleHash == <<120>>

SetFieldsCall ==
    /\ \E h \in {EmptyString, StaleHash, blk.Hash}, n \in HeightInputs,
          t \in SealTimestampInputs, p \in PayloadInputs, e \in EvidenceInputs :
          blk' = MakeBlock(h, n, t, p, e)
    /\ hashOp' = [op |-> "SetFields", before |-> EmptyString]
    /\ hashErr' = Nil
    /\ UNCHANGED <<storeVars, chainVars, shamirVars>>

CreateHashCall ==
    /\ hashOp.op # "none"
    /\ LET r == CreateHash(blk)
       IN /\ blk' = r.block
          /\ hashErr' = r.err
    /\ hashOp' = [op |-> "CreateHash", before |-> blk.Hash]
    /\ UNCHANGED <<storeVars, chainVars, shamirVars>>

NextHash ==
    \/ SetFieldsCall
    \/ CreateHashCall

SpecHash == Init /\ [][NextHash]_vars

-----------------------------------------------------------------------------
(* The Chain Sealer.  Its code is not among the sources; it is modelled    *)
(* from section 4.3 of the specification: it reads the chain head, sets    *)
(* the predecessor hash to the head's hash (empty if there is no head) and *)
(* the height to the head's height + 1, seals the block with CreateHash,   *)
(* persists it with StoreBlock, and advances the head only when the write  *)
(* succeeded.  Rounds are serialized.                                      *)

\* the clock reading of the round that seals the block after chainHead
RoundTimestamp(chainHead) == 60 * chainHead.height + 5

\* the candidate block of the Reduce Stage, linked to the head
Candidate(chainHead, t, p, e) ==
    [MakeBlock(EmptyString, chainHead.height + 1, t, p, e)
        EXCEPT !.PreviousHash = chainHead.hash]

SealRound ==
    /\ calls < MaxCalls
    /\ \E p \in PayloadInputs, e \in EvidenceInputs, failAt \in FailInputs :
          LET sealed == CreateHash(Candidate(head, RoundTimestamp(head), p, e))
              stored == StoreBlock(db, sealed.block, failAt, failAt = CommitStep)
          IN IF sealed.err # Nil
             THEN /\ last' = [NoCall EXCEPT !.op = "CreateHash", !.err = sealed.err,
                                            !.block = sealed.block]
                  /\ UNCHANGED <<db, head>>
             ELSE /\ db' = stored.db
                  /\ last' = [NoCall EXCEPT !.op = "StoreBlock", !.err = stored.err,
                                            !.block = sealed.block, !.fail = failAt]
                  /\ head' = IF stored.err = Nil
                             THEN [height |-> sealed.block.Height, hash |-> sealed.block.Hash]
                             ELSE head
    /\ calls' = calls + 1
    /\ UNCHANGED <<hashVars, shamirVars>>

NextChain ==
    \/ SealRound
    \/ StoreValueCall

SpecChain == Init /\ [][NextChain]_vars

-----------------------------------------------------------------------------
(* Properties of the ledger store *)

Found(b) == [block |-> b, err |-> Nil]
NotFound == [block |-> ZeroBlock, err |-> "KeyNotFound"]

StoredBlock == last.op = "StoreBlock" /\ last.err = Nil
FailedStoreBlock == last.op = "StoreBlock" /\ last.err # Nil

\* C1: right after StoreBlock(b) returns without error, GetBlock(b.Hash),
\* FindBlockByTimestamp(b.Timestamp) and FindBlockByHeight(b.Height) each
\* return, without error, a block equal to b in every field.
C1_RoundTrip ==
    StoredBlock =>
        /\ GetBlock(db, last.block.Hash) = Found(last.block)
        /\ FindBlockByTimestamp(db, last.block.Timestamp) = Found(last.block)
        /\ FindBlockByHeight(db, last.block.Height) = Found(last.block)

HasPrimary(store, b) ==
    /\ Has(store, StringIndex(b.Hash, HashKeyPrefix))
    /\ store[StringIndex(b.Hash, HashKeyPrefix)] = Marshal(b).bytes

HasTimestampEntry(store, b) ==
    /\ Has(store, UIntIndex(b.Timestamp, TimestampKeyPrefix))
    /\ store[UIntIndex(b.Timestamp, TimestampKeyPrefix)] = b.Hash

HasHeightEntry(store, b) ==
    /\ Has(store, UIntIndex(b.Height, HeightKeyPrefix))
    /\ store[UIntIndex(b.Height, HeightKeyPrefix)] = b.Hash

\* C2: in every reachable state the three entries of a block exist together
\* or not at all: the primary entry hash->block exists if and only if the
\* timestamp entry and the height entry of the block both exist.
C2_EntriesTogether ==
    \A b \in BlockInputs :
        HasPrimary(db, b) <=> (HasTimestampEntry(db, b) /\ HasHeightEntry(db, b))

\* C3: a StoreBlock one of whose sub-writes (or whose commit) fails returns
\* an error and leaves the store exactly as it was; a store that held no
\* entry for the block's hash still answers GetBlock with not-found.
C3_AllOrNothing ==
    [][(last'.op = "StoreBlock" /\ last'.fail # 0) =>
          /\ last'.err # Nil
          /\ db' = db
          /\ (GetBlock(db, last'.block.Hash) = NotFound
                => GetBlock(db', last'.block.Hash) = NotFound)]_vars

\* a StoreBlock whose height write was refused, on a store holding blocks
C3_Witness ==
    /\ FailedStoreBlock
    /\ last.fail = 3
    /\ db # EmptyDB
    /\ GetBlock(db, last.block.Hash) = NotFound

\* C5: once a lookup returns a block b, no later StoreBlock or StoreValue
\* changes that: GetBlock(b.Hash), FindBlockByTimestamp(b.Timestamp) and
\* FindBlockByHeight(b.Height) keep returning b.
C5_WriteOnce ==
    [][\A b \in BlockInputs :
          /\ GetBlock(db, b.Hash) = Found(b) => GetBlock(db', b.Hash) = Found(b)
          /\ FindBlockByTimestamp(db, b.Timestamp) = Found(b)
                => FindBlockByTimestamp(db', b.Timestamp) = Found(b)
          /\ FindBlockByHeight(db, b.Height) = Found(b)
                => FindBlockByHeight(db', b.Height) = Found(b)]_vars

\* the keys the lookups are probed with: the inputs and one never stored
HashProbes == HashInputs \cup {<<104, 48>>}
TimestampProbes == TimestampInputs \cup {0}
HeightProbes == HeightInputs \cup {0}

\* each lookup answers not-found, with no block contents, when its index
\* entry or the primary entry the index names is absent
C8_AbsentIsNotFound ==
    /\ \A h \in HashProbes :
          ~Has(db, StringIndex(h, HashKeyPrefix)) => GetBlock(db, h) = NotFound
    /\ \A t \in TimestampProbes :
          (\/ ~Has(db, UIntIndex(t, TimestampKeyPrefix))
           \/ ~Has(db, StringIndex(db[UIntIndex(t, TimestampKeyPrefix)], HashKeyPrefix)))
             => FindBlockByTimestamp(db, t) = NotFound
    /\ \A n \in HeightProbes :
          (\/ ~Has(db, UIntIndex(n, HeightKeyPrefix))
           \/ ~Has(db, StringIndex(db[UIntIndex(n, HeightKeyPrefix)], HashKeyPrefix)))
             => FindBlockByHeight(db, n) = NotFound

\* a lookup that answers not-found keeps doing so over every step that is
\* not a successful StoreBlock of a block with that key
C8_StaysNotFound ==
    LET stored == last'.op = "StoreBlock" /\ last'.err = Nil
    IN db' # db =>
          /\ \A h \in HashProbes :
                (GetBlock(db, h) = NotFound /\ ~(stored /\ last'.block.Hash = h))
                   => GetBlock(db', h) = NotFound
          /\ \A t \in TimestampProbes :
                (FindBlockByTimestamp(db, t) = NotFound
                 /\ ~(stored /\ last'.block.Timestamp = t))
                   => FindBlockByTimestamp(db', t) = NotFound
          /\ \A n \in HeightProbes :
                (FindBlockByHeight(db, n) = NotFound /\ ~(stored /\ last'.block.Height = n))
                   => FindBlockByHeight(db', n) = NotFound

\* C8: GetBlock, FindBlockByTimestamp and FindBlockByHeight fail with
\* not-found and no block contents whenever the index entry or the primary
\* entry is absent; every lookup for which no matching StoreBlock has
\* succeeded fails with not-found.
C8_NotFound ==
    /\ \A h \in HashProbes : GetBlock(EmptyDB, h) = NotFound
    /\ [](C8_AbsentIsNotFound)
    /\ [][C8_StaysNotFound]_vars

\* lookups of a key never stored, made on a store that holds blocks and
\* raw values
C8_Witness ==
    /\ StoredBlock
    /\ calls = MaxCalls
    /\ \E k \in KeyInputs : Has(db, StringIndex(k, FixedKeyPrefix))
    /\ \E h \in HashInputs : GetBlock(db, h) = NotFound
    /\ \E t \in TimestampInputs : FindBlockByTimestamp(db, t) = NotFound
    /\ \E n \in HeightInputs : FindBlockByHeight(db, n) = NotFound

HashKeys == {StringIndex(b.Hash, HashKeyPrefix) : b \in BlockInputs}
TimestampKeys == {UIntIndex(b.Timestamp, TimestampKeyPrefix) : b \in BlockInputs}
HeightKeys == {UIntIndex(b.Height, HeightKeyPrefix) : b \in BlockInputs}
\* the keys StoreValue writes
FixedKeys == UNION {DOMAIN StoreValue(EmptyDB, k, v, 0, FALSE).db :
                       k \in KeyInputs \cup HashInputs, v \in ValueInputs}

C10_KindsDisjoint ==
    /\ HashKeys \cap TimestampKeys = {}
    /\ HashKeys \cap HeightKeys = {}
    /\ TimestampKeys \cap HeightKeys = {}
    /\ FixedKeys \cap (HashKeys \cup TimestampKeys \cup HeightKeys) = {}

C10_Frame ==
    /\ last'.op = "StoreValue" =>
          /\ \A h \in HashProbes : GetBlock(db', h) = GetBlock(db, h)
          /\ \A t \in TimestampProbes :
                FindBlockByTimestamp(db', t) = FindBlockByTimestamp(db, t)
          /\ \A n \in HeightProbes : FindBlockByHeight(db', n) = FindBlockByHeight(db, n)
    /\ last'.op = "StoreBlock" =>
          \A k \in KeyInputs \cup HashInputs : GetValue(db', k) = GetValue(db, k)

\* C10: StoreValue leaves the result of every block lookup unchanged,
\* StoreBlock leaves the result of GetValue unchanged for every key, and no
\* key written by one index kind equals a key written by another.
C10_Namespaces == [][C10_Frame /\ C10_KindsDisjoint]_vars

\* a raw value stored under the text of a stored block's hash, the block
\* still found by its hash
C10_Witness ==
    /\ last.op = "StoreValue"
    /\ last.err = Nil
    /\ Has(db, StringIndex(last.key, HashKeyPrefix))
    /\ GetBlock(db, last.key).err = Nil
    /\ GetValue(db, last.key) = [val |-> last.value, err |-> Nil]

-----------------------------------------------------------------------------
(* Properties of block sealing *)

Sealed == hashOp.op = "CreateHash"

\* the hash the claim gives a block: "dd", the seconds of the timestamp in
\* two digits, the double hash of the block serialized with Hash empty
SealOf(block) ==
    BlockHashPrefix \o Pad2(block.Timestamp % 60)
    \o Sha256Hex(Sha256Hex(ServiceHash \o <<58>>
                           \o Marshal([block EXCEPT !.Hash = EmptyString]).bytes))

C9_HashOfContents ==
    Sealed =>
        /\ hashErr = Nil => blk.Hash = SealOf(blk)
        /\ hashErr # Nil =>
              (Unsupported(blk.Payload) /\ blk.Hash = BlockHashPrefix \o Pad2(blk.Timestamp % 60))
        /\ Len(Pad2(blk.Timestamp % 60)) = 2

\* C9: after CreateHash the Hash is "dd", the two-digit zero-padded seconds
\* of the Timestamp (Timestamp mod 60) and the double hash of the block
\* serialized with Hash empty; it does not depend on the Hash held before
\* the call, and a second CreateHash on unchanged contents gives the same Hash.
C9_Sealing ==
    /\ [](C9_HashOfContents)
    /\ [][(Sealed /\ hashOp'.op = "CreateHash") => blk'.Hash = blk.Hash]_vars

\* a block sealed while it held a stale Hash, its seconds below ten and its
\* timestamp past the first minute
C9_Witness ==
    /\ Sealed
    /\ hashErr = Nil
    /\ hashOp.before = StaleHash
    /\ blk.Timestamp >= 60
    /\ blk.Timestamp % 60 < 10
    /\ blk.Hash = SealOf(blk)

-----------------------------------------------------------------------------
(* Properties of the chain *)

\* the blocks of the primary entries
StoredBlocks ==
    {Unmarshal(db[k]).block : k \in {x \in DOMAIN db : x[1] = HashKeyPrefix}}

Linked(b) ==
    IF b.Height = FirstHeight THEN b.PreviousHash = EmptyString
    ELSE LET previous == FindBlockByHeight(db, b.Height - 1)
         IN /\ previous.err = Nil
            /\ previous.block.Height = b.Height - 1
            /\ previous.block.Hash = b.PreviousHash

\* C4: every block stored at a height other than the first has a block
\* stored at the height below it, whose Hash is its PreviousHash; the first
\* block has the empty PreviousHash; consecutive heights differ by 1.
C4_ChainLinkage ==
    /\ \A b \in StoredBlocks :
          /\ b.Height >= FirstHeight
          /\ FindBlockByHeight(db, b.Height) = Found(b)
          /\ Linked(b)
    /\ \A n \in FirstHeight..(MaxCalls + 1) :
          Has(db, UIntIndex(n, HeightKeyPrefix)) =>
             /\ FindBlockByHeight(db, n).err = Nil
             /\ FindBlockByHeight(db, n).block.Height = n
             /\ n <= head.height

\* a chain of three blocks, sealed around a round whose write failed
C4_Witness ==
    /\ head.height >= 2
    /\ FailedStoreBlock
    /\ Cardinality(StoredBlocks) >= 2
    /\ \E b \in StoredBlocks : b.Height = 2 /\ b.PreviousHash # EmptyString /\ Linked(b)

-----------------------------------------------------------------------------
(* Package shamir: arithmetic in GF(2^8) *)

\* log(X)/log(g) at index X + 1
logTable ==
    <<
       0, 255, 200, 8, 145, 16, 208, 54, 90, 62, 216, 67, 153, 119, 254, 24,
       35, 32, 7, 112, 161, 108, 12, 127, 98, 139, 64, 70, 199, 75, 224, 14,
       235, 22, 232, 173, 207, 205, 57, 83, 106, 39, 53, 147, 212, 78, 72, 195,
       43, 121, 84, 40, 9, 120, 15, 33, 144, 135, 20, 42, 169, 156, 214, 116,
       180, 124, 222, 237, 177, 134, 118, 164, 152, 226, 150, 143, 2, 50, 28, 193,
       51, 238, 239, 129, 253, 48, 92, 19, 157, 41, 23, 196, 17, 68, 140, 128,
       243, 115, 66, 30, 29, 181, 240, 18, 209, 91, 65, 162, 215, 44, 233, 213,
       89, 203, 80, 168, 220, 252, 242, 86, 114, 166, 101, 47, 159, 155, 61, 186,
       125, 194, 69, 130, 167, 87, 182, 163, 122, 117, 79, 174, 63, 55, 109, 71,
       97, 190, 171, 211, 95, 176, 88, 175, 202, 94, 250, 133, 228, 77, 138, 5,
       251, 96, 183, 123, 184, 38, 74, 103, 198, 26, 248, 105, 37, 179, 219, 189,
       102, 221, 241, 210, 223, 3, 141, 52, 217, 146, 13, 99, 85, 170, 73, 236,
       188, 149, 60, 132, 11, 245, 230, 231, 229, 172, 126, 110, 185, 249, 218, 142,
       154, 201, 36, 225, 10, 21, 107, 58, 160, 81, 244, 234, 178, 151, 158, 93,
       34, 136, 148, 206, 25, 1, 113, 76, 165, 227, 197, 49, 187, 204, 31, 45,
       59, 82, 111, 246, 46, 137, 247, 192, 104, 27, 100, 4, 6, 191, 131, 56
    >>

\* g^X at index X + 1
expTable ==
    <<
       1, 229, 76, 181, 251, 159, 252, 18, 3, 52, 212, 196, 22, 186, 31, 54,
       5, 92, 103, 87, 58, 213, 33, 90, 15, 228, 169, 249, 78, 100, 99, 238,
       17, 55, 224, 16, 210, 172, 165, 41, 51, 89, 59, 48, 109, 239, 244, 123,
       85, 235, 77, 80, 183, 42, 7, 141, 255, 38, 215, 240, 194, 126, 9, 140,
       26, 106, 98, 11, 93, 130, 27, 143, 46, 190, 166, 29, 231, 157, 45, 138,
       114, 217, 241, 39, 50, 188, 119, 133, 150, 112, 8, 105, 86, 223, 153, 148,
       161, 144, 24, 187, 250, 122, 176, 167, 248, 171, 40, 214, 21, 142, 203, 242,
       19, 230, 120, 97, 63, 137, 70, 13, 53, 49, 136, 163, 65, 128, 202, 23,
       95, 83, 131, 254, 195, 155, 69, 57, 225, 245, 158, 25, 94, 182, 207, 75,
       56, 4, 185, 43, 226, 193, 74, 221, 72, 12, 208, 125, 61, 88, 222, 124,
       216, 20, 107, 135, 71, 232, 121, 132, 115, 60, 189, 146, 201, 35, 139, 151,
       149, 68, 220, 173, 64, 101, 134, 162, 164, 204, 127, 236, 192, 175, 145, 253,
       247, 79, 129, 47, 91, 234, 168, 28, 2, 209, 152, 113, 237, 37, 227, 36,
       6, 104, 179, 147, 44, 111, 62, 108, 10, 184, 206, 174, 116, 177, 66, 180,
       30, 211, 73, 233, 156, 200, 198, 199, 34, 110, 219, 32, 191, 67, 81, 82,
       102, 178, 118, 96, 218, 197, 243, 246, 170, 205, 154, 160, 117, 84, 14, 1
    >>

Bytes == 0..255

\* the outcome of a panic, where a byte is expected
Panic == 256

\* a ^ b on bytes
RECURSIVE Xor(_, _)
Xor(a, b) ==
    IF a = 0 THEN b
    ELSE IF b = 0 THEN a
    ELSE 2 * Xor(a \div 2, b \div 2) + ((a + b) % 2)

add(a, b) == Xor(a, b)

\* Go's % on ints: the sign of the result is the sign of the dividend
Rem(a, b) == IF a >= 0 THEN a % b ELSE 0 - ((0 - a) % b)

\* diff of div, made non-negative
LogDiff(a, b) ==
    IF Rem(logTable[a + 1] - logTable[b + 1], 255) < 0
    THEN Rem(logTable[a + 1] - logTable[b + 1], 255) + 255
    ELSE Rem(logTable[a + 1] - logTable[b + 1], 255)

div(a, b) ==
    IF b = 0 THEN Panic
    ELSE IF a = 0 THEN 0
    ELSE expTable[LogDiff(a, b) + 1]

mult(a, b) ==
    IF a = 0 \/ b = 0 THEN 0
    ELSE expTable[Rem(logTable[a + 1] + logTable[b + 1], 255) + 1]

\* the loop of polynomial.evaluate from coefficient i down: Horner's method
RECURSIVE Horner(_, _, _, _)
Horner(coefficients, x, i, out) ==
    IF i < 1 THEN out
    ELSE Horner(coefficients, x, i - 1, add(mult(out, x), coefficients[i]))

\* polynomial.evaluate(x); coefficients[1] is the intercept
evaluate(coefficients, x) ==
    IF x = 0 THEN coefficients[1]
    ELSE Horner(coefficients, x, Len(coefficients) - 1, coefficients[Len(coefficients)])

\* the inner loop of interpolatePolynomial from j on: the basis of sample i
RECURSIVE Basis(_, _, _, _, _)
Basis(xSamples, x, i, j, basis) ==
    IF j > Len(xSamples) \/ basis = Panic THEN basis
    ELSE IF i = j THEN Basis(xSamples, x, i, j + 1, basis)
    ELSE IF div(add(x, xSamples[j]), add(xSamples[i], xSamples[j])) = Panic THEN Panic
    ELSE Basis(xSamples, x, i, j + 1,
               mult(basis, div(add(x, xSamples[j]), add(xSamples[i], xSamples[j]))))

\* the outer loop of interpolatePolynomial from i on
RECURSIVE Lagrange(_, _, _, _, _)
Lagrange(xSamples, ySamples, x, i, result) ==
    IF i > Len(xSamples) THEN result
    ELSE IF Basis(xSamples, x, i, 1, 1) = Panic THEN Panic
    ELSE Lagrange(xSamples, ySamples, x, i + 1,
                  add(result, mult(ySamples[i], Basis(xSamples, x, i, 1, 1))))

interpolatePolynomial(xSamples, ySamples, x) == Lagrange(xSamples, ySamples, x, 1, 0)

-----------------------------------------------------------------------------
(* Package shamir: Split and Combine *)

\* the byte size overhead of each share, as the package documents it
ShareOverhead == 1

\* makePolynomial(intercept, degree) once rand.Read has filled random
makePolynomial(intercept, random) == <<intercept>> \o random

\* XTag without the 1 added to the x coordinate
XTagNoOffset(xCoordinates, i) == xCoordinates[i] % 256

\* uint8(xCoordinates[i]) + 1
XTag(xCoordinates, i) == (xCoordinates[i] + 1) % 256

\* out[i] at the end of Split: the y of every byte of the secret, the x tag,
\* and the two bytes written from the polynomial of the last byte
Share(secret, coefficients, x) ==
    [k \in 1..(Len(secret) + 3) |->
        IF k <= Len(secret)
        THEN evaluate(makePolynomial(secret[k], coefficients[k]), x)
        ELSE IF k = Len(secret) + 1 THEN x
        ELSE makePolynomial(secret[Len(secret)],
                            coefficients[Len(secret)])[k - Len(secret) - 1]]

\* Split(secret, parts, threshold): [shares, err].  coefficients[k] are the
\* bytes rand.Read gives the polynomial of byte k, xCoordinates the
\* permutation of mathrand.Perm, randFails whether rand.Read fails.
Split(secret, parts, threshold, coefficients, xCoordinates, randFails) ==
    IF parts < threshold
    THEN [shares |-> << >>, err |-> "parts cannot be less than threshold"]
    ELSE IF parts > 255
    THEN [shares |-> << >>, err |-> "parts cannot exceed 255"]
    ELSE IF threshold < 2
    THEN [shares |-> << >>, err |-> "threshold must be at least 2"]
    ELSE IF threshold > 255
    THEN [shares |-> << >>, err |-> "threshold cannot exceed 255"]
    ELSE IF Len(secret) = 0
    THEN [shares |-> << >>, err |-> "cannot split an empty secret"]
    ELSE IF randFails
    THEN [shares |-> << >>, err |-> "failed to generate polynomial"]
    ELSE [shares |-> [i \in 1..parts |->
                        Share(secret, coefficients, XTag(xCoordinates, i))],
          err |-> Nil]

\* xSamples of Combine: part[firstPartLen-3] of every part
XSamples(parts) == [i \in 1..Len(parts) |-> parts[i][Len(parts[1]) - 2]]

\* ySamples of Combine for the byte idx
YSamples(parts, idx) == [i \in 1..Len(parts) |-> parts[i][idx]]

\* the bytes Combine reconstructs
Reconstruct(parts) ==
    [idx \in 1..(Len(parts[1]) - 1) |->
        interpolatePolynomial(XSamples(parts), YSamples(parts, idx), 0)]

\* Combine(parts): [secret, err]
Combine(parts) ==
    IF Len(parts) < 2
    THEN [secret |-> << >>,
          err |-> "less than two parts cannot be used to reconstruct the secret"]
    ELSE IF Len(parts[1]) < 2
    THEN [secret |-> << >>, err |-> "parts must be at least two bytes"]
    ELSE IF \E i \in 2..Len(parts) : Len(parts[i]) # Len(parts[1])
    THEN [secret |-> << >>, err |-> "all parts must be the same length"]
    ELSE IF Len(parts[1]) - 3 < 0
    THEN [secret |-> << >>, err |-> "panic: index out of range"]
    ELSE IF \E i, j \in 1..Len(parts) : i # j /\ XSamples(parts)[i] = XSamples(parts)[j]
    THEN [secret |-> << >>, err |-> "duplicate part detected"]
    ELSE IF \E idx \in 1..(Len(parts[1]) - 1) : Reconstruct(parts)[idx] = Panic
    THEN [secret |-> << >>, err |-> "panic: divide by zero"]
    ELSE [secret |-> Reconstruct(parts), err |-> Nil]

-----------------------------------------------------------------------------
(* Calls of Split and Combine *)

SecretInputs == {<< >>, <<5>>, <<9>>, <<5, 9>>, <<7, 9>>}

\* parts and threshold given to Split
SplitInputs ==
    {[parts |-> 2, threshold |-> 2], [parts |-> 3, threshold |-> 2],
     [parts |-> 3, threshold |-> 3], [parts |-> 1, threshold |-> 2],
     [parts |-> 2, threshold |-> 1], [parts |-> 256, threshold |-> 2]}

\* permutations of 0..254 drawn by mathrand.Perm: 0, 1, 2, ... and
\* 253, 254, 0, ...
PermInputs == {[i \in 1..255 |-> i - 1], [i \in 1..255 |-> (i + 252) % 255]}

\* bytes read from rand.Read
CoefficientInputs == {0, 1, 200}

\* the random bytes of one Split: one sequence of threshold-1 bytes for every
\* byte of the secret
Coefficients(secret, threshold, bytes) ==
    [1..Len(secret) -> [1..(threshold - 1) -> bytes]]

SplitCall ==
    /\ splitCall.op = "none"
    /\ \E s \in SecretInputs, in \in SplitInputs, xs \in PermInputs, randFails \in BOOLEAN :
          \E c \in Coefficients(s, in.threshold, CoefficientInputs) :
             splitCall' = [op |-> "Split", secret |-> s, parts |-> in.parts,
                           threshold |-> in.threshold, randFails |-> randFails,
                           shares |-> Split(s, in.parts, in.threshold, c, xs, randFails).shares,
                           err |-> Split(s, in.parts, in.threshold, c, xs, randFails).err]
    /\ combineCall' = NoCombine
    /\ UNCHANGED <<storeVars, chainVars, hashVars>>

\* the shares with an index in used, in the order Split returned them
RECURSIVE Pick(_, _, _)
Pick(shares, used, i) ==
    IF i > Len(shares) THEN << >>
    ELSE (IF i \in used THEN <<shares[i]>> ELSE << >>) \o Pick(shares, used, i + 1)

CombineCall ==
    /\ splitCall.op = "Split"
    /\ combineCall.op = "none"
    /\ splitCall.err = Nil
    /\ \E used \in SUBSET (1..Len(splitCall.shares)) :
          /\ used # {}
          /\ combineCall' = [op |-> "Combine", used |-> used,
                             parts |-> Pick(splitCall.shares, used, 1),
                             secret |-> Combine(Pick(splitCall.shares, used, 1)).secret,
                             err |-> Combine(Pick(splitCall.shares, used, 1)).err]
    /\ UNCHANGED <<splitCall, storeVars, chainVars, hashVars>>

NextShamir ==
    \/ SplitCall
    \/ CombineCall

SpecShamir == Init /\ [][NextShamir]_vars

-----------------------------------------------------------------------------
(* Properties of Split and Combine *)

\* C6: Combine applied to at least threshold distinct shares of a successful
\* Split returns, without error, the secret given to Split: the same length
\* and the same bytes.
C6_RoundTrip ==
    (/\ splitCall.err = Nil
     /\ combineCall.op = "Combine"
     /\ Cardinality(combineCall.used) >= splitCall.threshold)
    => /\ combineCall.err = Nil
       /\ combineCall.secret = splitCall.secret

\* the shares at positions can come out of Split(other, parts, threshold)
\* under some random coefficients and x coordinates
Producible(other, positions) ==
    \E xs \in PermInputs :
       \E c \in Coefficients(other, splitCall.threshold, Bytes) :
          \A i \in positions :
             Split(other, splitCall.parts, splitCall.threshold, c, xs, FALSE).shares[i]
                = splitCall.shares[i]

\* C7: fewer than threshold shares of a successful Split carry no
\* information about the secret: whatever they are, every other secret of
\* the same length can produce them as well.
C7_ThresholdSecrecy ==
    (splitCall.op = "Split" /\ splitCall.err = Nil)
    => \A other \in SecretInputs :
          Len(other) = Len(splitCall.secret)
          => \A positions \in SUBSET (1..splitCall.parts) :
                Cardinality(positions) < splitCall.threshold
                => Producible(other, positions)

\* C11: every share of a successful Split is ShareOverhead bytes, one byte,
\* longer than the secret.
C11_ShareLength ==
    (splitCall.op = "Split" /\ splitCall.err = Nil)
    => \A i \in 1..Len(splitCall.shares) :
          Len(splitCall.shares[i]) = Len(splitCall.secret) + ShareOverhead

-----------------------------------------------------------------------------
(* Split at the limits of its parameters *)

\* parts and threshold around the limit of 255
LimitInputs ==
    {[parts |-> 255, threshold |-> 2], [parts |-> 256, threshold |-> 2],
     [parts |-> 256, threshold |-> 256], [parts |-> 255, threshold |-> 256],
     [parts |-> 0, threshold |-> 0]}

\* Split gets as far as makePolynomial
ReachesRandom(secret, parts, threshold) ==
    Split(secret, parts, threshold, << >>, << >>, TRUE).err = "failed to generate polynomial"

\* the number of bytes makePolynomial allocates for a polynomial, when
\* it is called
Degree(secret, parts, threshold) ==
    IF ReachesRandom(secret, parts, threshold) THEN threshold ELSE 1

SplitLimitCall ==
    /\ splitCall.op = "none"
    /\ \E s \in SecretInputs, in \in SplitInputs \cup LimitInputs, xs \in PermInputs,
          randFails \in BOOLEAN :
          \E c \in Coefficients(s, Degree(s, in.parts, in.threshold), CoefficientInputs) :
             splitCall' = [op |-> "Split", secret |-> s, parts |-> in.parts,
                           threshold |-> in.threshold, randFails |-> randFails,
                           shares |-> Split(s, in.parts, in.threshold, c, xs, randFails).shares,
                           err |-> Split(s, in.parts, in.threshold, c, xs, randFails).err]
    /\ UNCHANGED <<combineCall, storeVars, chainVars, hashVars>>

NextSplit == SplitLimitCall

SpecSplit == Init /\ [][NextSplit]_vars

\* one of the five parameter checks of Split rejects the call
Rejected ==
    \/ splitCall.parts < splitCall.threshold
    \/ splitCall.parts > 255
    \/ splitCall.threshold < 2
    \/ splitCall.threshold > 255
    \/ Len(splitCall.secret) = 0

\* the x tag of share i
TagOf(i) == splitCall.shares[i][Len(splitCall.secret) + 1]

\* exactly parts shares, with x tags that are pairwise distinct and not zero
SharesWellFormed ==
    /\ Len(splitCall.shares) = splitCall.parts
    /\ \A i \in 1..Len(splitCall.shares) : TagOf(i) \in 1..255
    /\ \A i, j \in 1..Len(splitCall.shares) : i # j => TagOf(i) # TagOf(j)

\* C12 as stated: Split returns an error and no shares exactly when one of
\* the five parameter checks rejects the call, and parts well-formed shares
\* for every other input.
C12_AsStated ==
    splitCall.op = "Split"
    => /\ (splitCall.err # Nil) <=> Rejected
       /\ splitCall.err # Nil => splitCall.shares = << >>
       /\ splitCall.err = Nil => SharesWellFormed

\* C12: Split returns an error and no shares exactly when one of the five
\* parameter checks rejects the call or rand.Read fails, and parts shares
\* with pairwise distinct, non-zero x tags for every other input.
C12_Validation ==
    splitCall.op = "Split"
    => /\ (splitCall.err # Nil) <=> (Rejected \/ splitCall.randFails)
       /\ splitCall.err # Nil => splitCall.shares = << >>
       /\ splitCall.err = Nil => SharesWellFormed

\* Split returned 255 shares, one of them with the x tag 255
C12_Witness ==
    /\ splitCall.op = "Split"
    /\ splitCall.err = Nil
    /\ splitCall.parts = 255
    /\ Len(splitCall.shares) = 255
    /\ \E i \in 1..255 : TagOf(i) = 255

-----------------------------------------------------------------------------
(* Combine on any list of parts *)

\* the longest part, and the longest list of parts, given to Combine
MaxPartLen == 4
MaxParts == 2

PartBytes == {1, 2}

\* the parts: every byte sequence of at most MaxPartLen bytes
PartInputs == UNION {[1..n -> PartBytes] : n \in 0..MaxPartLen}

\* the lists of at most MaxParts parts
PartsInputs == UNION {[1..n -> PartInputs] : n \in 0..MaxParts}

CombinePartsCall ==
    /\ combineCall.op = "none"
    /\ \E parts \in PartsInputs :
          combineCall' = [op |-> "Combine", used |-> {}, parts |-> parts,
                          secret |-> Combine(parts).secret,
                          err |-> Combine(parts).err]
    /\ UNCHANGED <<splitCall, storeVars, chainVars, hashVars>>

NextCombine == CombinePartsCall

SpecCombine == Init /\ [][NextCombine]_vars

\* the ways Combine can abort
Panics == {"panic: index out of range", "panic: divide by zero"}

\* C13: Combine never aborts: whatever the parts, it returns a secret or an
\* error value, without an out-of-range read and without the divide-by-zero
\* panic of div.
C13_NeverAborts ==
    combineCall.op = "Combine" => combineCall.err \notin Panics

====
